---- MODULE Spec2Model ----
(***************************************************************************)
(* openapi-for-llms (src/cli.js): the reference scanner findRefs, the      *)
(* subset builder createSubset and the partition driver processOpenAPI.    *)
(*                                                                         *)
(* Strings the code compares or builds character by character (definition  *)
(* names, paths, operation identifiers, the JSON text findRefs searches)   *)
(* are sequences of one-character strings; fixed multi-character literals  *)
(* of the source ("$ref", "#/components/", a category name, a method name  *)
(* used as an object key) are single tokens of such a sequence.            *)
(*                                                                         *)
(* A JS object whose key order matters (a paths object) is a sequence of   *)
(* entries; one whose key order does not matter for what is modelled (a    *)
(* path item, a component category, the file map) is a function over its   *)
(* keys.                                                                   *)
(***************************************************************************)
EXTENDS Naturals, Sequences, FiniteSets, TLC

VARIABLES
  mode,            \* which entry point this behaviour exercises
  pc,              \* position inside the entry point
  openapi,         \* the document handed to processOpenAPI / createSubset
  paths,           \* createSubset's `paths` argument
  operationFilter, \* createSubset's `operationFilter` argument
  subset,          \* createSubset's return value
  dereferenced,    \* processOpenAPI: the flattened copy of the document
  files,           \* processOpenAPI: the file map under construction
  operations,      \* processOpenAPI: the operations collected (line 233)
  tags,            \* processOpenAPI: the Set of tag names, in insertion order
  tagInfo,         \* processOpenAPI: the Map from tag name to tag descriptor
  cursor,          \* processOpenAPI: position of the loop pc names
  fetched,         \* the fetches made so far: what was asked, what came back
  throwAt,         \* the loop position at which a statement of the try throws
  error,           \* processOpenAPI: what the catch of line 386 has bound
  exitCode,        \* the code process.exit was called with
  disk,            \* runCLI: the working directory, file name to content
  findArgs,        \* findRefs on its own: json, refs and refPrefix
  findResult,      \* findRefs on its own: the names returned
  idArgs,          \* identifier derivation: the operation, path and method
  idResult         \* identifier derivation: the identifiers derived

vars ==
  <<mode, pc, openapi, paths, operationFilter, subset, dereferenced, files,
    operations, tags, tagInfo, cursor, fetched, throwAt, error, exitCode,
    disk, findArgs, findResult, idArgs, idResult>>

subsetVars == <<openapi, paths, operationFilter, subset>>
processVars ==
  <<dereferenced, files, operations, tags, tagInfo, cursor, fetched, throwAt,
    error, exitCode, disk>>
idVars == <<idArgs, idResult>>
findVars == <<findArgs, findResult>>

\* An optional value (a property that may be absent, an argument that may be
\* null) is the empty set when absent and the singleton of its value otherwise.
Undefined == {}
Null == {}
Some(v) == {v}
The(o) == CHOOSE v \in o : TRUE

Range(s) == {s[i] : i \in DOMAIN s}

\* obj[key] of a JS object modelled as a function: undefined when absent.
Get(obj, key) == IF key \in DOMAIN obj THEN Some(obj[key]) ELSE Undefined

RECURSIVE Concat(_)
Concat(ss) == IF ss = <<>> THEN <<>> ELSE Head(ss) \o Concat(Tail(ss))

----------------------------------------------------------------------------
(* Bounds of the model *)

\* pointers one operation object holds at most
MaxRefs == 2
\* operations a paths object holds at most
MaxOps == 2

----------------------------------------------------------------------------
(* Vocabulary of the source *)

methods ==
  <<"get", "post", "put", "patch", "delete", "head", "options", "trace">>

componentTypes ==
  <<"parameters", "responses", "examples", "requestBodies", "headers",
    "securitySchemes", "links", "callbacks">>

\* the default value of findRefs' refPrefix parameter
schemasPrefix == <<"#/components/", "schemas", "/">>

\* `#/components/${componentType}/`
componentPrefix(componentType) == <<"#/components/", componentType, "/">>

DQ == "\""

----------------------------------------------------------------------------
(* Documents *)

Pet == <<"P", "e", "t">>
Pets == <<"P", "e", "t", "s">>
Nil == <<"N", "i", "l">>
Lim == <<"L", "i", "m">>

\* A pointer is the pair <<category, name>> of the literal
\* {"$ref": "#/components/<category>/<name>"}.
SchemaPet == <<"schemas", Pet>>
SchemaPets == <<"schemas", Pets>>
SchemaNil == <<"schemas", Nil>>
ParamLim == <<"parameters", Lim>>
HeaderLim == <<"headers", Lim>>

\* A definition body: truthy is JS truthiness of the body (an object is truthy,
\* the boolean schema `false` or a null body is not); refs are the pointers the
\* body holds, in document order; inlined are bodies a flattener put in place
\* of pointers.
Body(truthy, refs) == [truthy |-> truthy, refs |-> refs, inlined |-> <<>>]

\* Pet points to a schema (its own category), to a parameter and a header
\* (categories scanned after schemas); the parameter points back to a schema
\* and on to a header.
PetBody == Body(TRUE, <<SchemaPets, ParamLim>>)
PetsBody == Body(TRUE, <<>>)
NilBody == Body(FALSE, <<>>)
LimBody == Body(TRUE, <<SchemaPets, HeaderLim>>)
HeaderBody == Body(TRUE, <<>>)

\* The `components` objects documents are drawn from; Undefined is a document
\* without a components block. Every pointer of a body resolves inside the
\* same components object, and no body reaches itself.
ComponentsChoices ==
  { Undefined,
    Some([parameters |-> (Lim :> Body(TRUE, <<HeaderLim>>)),
          headers |-> (Lim :> HeaderBody)]),
    Some([schemas |-> (Pet :> PetBody @@ Pets :> PetsBody),
          parameters |-> (Lim :> LimBody),
          headers |-> (Lim :> HeaderBody)]),
    Some([schemas |-> (Pet :> PetBody @@ Pets :> PetsBody @@ Nil :> NilBody),
          parameters |-> (Lim :> LimBody),
          headers |-> (Lim :> HeaderBody)]),
    Some([schemas |-> (Nil :> NilBody)]) }

\* the pointers that resolve in a components object, in a fixed order
AllPointers == <<SchemaPet, SchemaPets, SchemaNil, ParamLim, HeaderLim>>

Defined(components, ptr) ==
  /\ components # Undefined
  /\ ptr[1] \in DOMAIN The(components)
  /\ ptr[2] \in DOMAIN The(components)[ptr[1]]

\* the pointer lists a fragment of a document with these components may hold:
\* at most max pointers, each resolving, in the order of AllPointers
RefLists(components, max) ==
  LET ok == {i \in DOMAIN AllPointers : Defined(components, AllPointers[i])}
      pick(S) == LET idx == [i \in DOMAIN AllPointers |-> i]
                     test(i) == i \in S
                 IN [k \in DOMAIN SelectSeq(idx, test) |->
                       AllPointers[SelectSeq(idx, test)[k]]]
  IN {pick(S) : S \in {T \in SUBSET ok : Cardinality(T) <= max}}

\* An operation object. operationId: Undefined or a string; tags: Undefined or
\* a list of tag names; externalDocs: Undefined or [url |-> ...].
Operation(operationId, opTags, externalDocs, refs) ==
  [operationId |-> operationId, tags |-> opTags, externalDocs |-> externalDocs,
   refs |-> refs, inlined |-> <<>>]

\* what a path item holds under a method whose value is null (`get:` with
\* nothing under it)
NullOperation == [null |-> TRUE]

\* JS truthiness of the value a path item holds under a key
TruthyOperation(operation) == "null" \notin DOMAIN operation

PathP == <<"/", "p">>
PathQ == <<"/", "q">>

----------------------------------------------------------------------------
(* JSON.stringify(json, undefined, 0), as far as findRefs can tell: the     *)
(* text of every pointer, with the object keys and brackets around it.      *)

BS == "\\"

\* The characters of a string between the quotes of its JSON text: a double
\* quote and a backslash are written with a backslash before them, every other
\* character of the model as itself.
RECURSIVE Quote(_)
Quote(str) ==
  IF str = << >> THEN << >>
  ELSE (IF Head(str) \in {DQ, BS} THEN <<BS, Head(str)>> ELSE <<Head(str)>>)
       \o Quote(Tail(str))

\* {"$ref":"#/components/<category>/<name>"}
StringifyRef(ptr) ==
  <<"{", DQ, "$ref", DQ, ":", DQ, "#/components/", ptr[1], "/">>
    \o Quote(ptr[2]) \o <<DQ, "}">>

RECURSIVE StringifyBody(_)
StringifyBody(body) ==
  IF ~body.truthy THEN <<"false">>
  ELSE <<"{">>
       \o (IF "description" \in DOMAIN body
           THEN <<DQ, "description", DQ, ":", DQ>> \o Quote(body.description)
                \o <<DQ>>
           ELSE << >>)
       \o Concat([i \in DOMAIN body.refs |-> StringifyRef(body.refs[i])])
       \o Concat([i \in DOMAIN body.inlined |-> StringifyBody(body.inlined[i])])
       \o <<"}">>

StringifyOperation(operation) ==
  <<"{">>
  \o Concat([i \in DOMAIN operation.refs |-> StringifyRef(operation.refs[i])])
  \o Concat([i \in DOMAIN operation.inlined |->
               StringifyBody(operation.inlined[i])])
  \o <<"}">>

\* a path item built by the code holds its methods in the order of `methods`
StringifyPathItem(pathItem) ==
  <<"{">>
  \o Concat([i \in DOMAIN methods |->
       IF methods[i] \in DOMAIN pathItem
       THEN <<DQ, methods[i], DQ, ":">>
            \o StringifyOperation(pathItem[methods[i]])
       ELSE <<>>])
  \o <<"}">>

StringifyPaths(ps) ==
  <<"{">>
  \o Concat([i \in DOMAIN ps |->
       <<DQ>> \o Quote(ps[i].path) \o <<DQ, ":">>
       \o StringifyPathItem(ps[i].item)])
  \o <<"}">>

\* a component category object, its names in the order of AllPointers
StringifyCategory(category, defs) ==
  <<"{">>
  \o Concat([i \in DOMAIN AllPointers |->
       IF AllPointers[i][1] = category /\ AllPointers[i][2] \in DOMAIN defs
       THEN <<DQ>> \o Quote(AllPointers[i][2]) \o <<DQ, ":">>
            \o StringifyBody(defs[AllPointers[i][2]])
       ELSE <<>>])
  \o <<"}">>

\* subset.components holds "schemas" first when present, then the categories
\* in the order the loop over componentTypes added them
StringifyComponents(components) ==
  LET order == <<"schemas">> \o componentTypes
  IN <<"{">>
     \o Concat([i \in DOMAIN order |->
          IF order[i] \in DOMAIN components
          THEN <<DQ, order[i], DQ, ":">>
               \o StringifyCategory(order[i], components[order[i]])
          ELSE <<>>])
     \o <<"}">>

\* the subset under construction: openapi, info, servers, paths and, once
\* assigned, components
Stringify(json) ==
  <<"{", DQ, "info", DQ, ":">> \o StringifyBody(json.info)
  \o <<DQ, "paths", DQ, ":">> \o StringifyPaths(json.paths)
  \o (IF "components" \in DOMAIN json
      THEN <<DQ, "components", DQ, ":">>
           \o StringifyComponents(json.components)
      ELSE <<>>)
  \o <<"}">>

\* String.prototype.includes
Includes(string, snippet) ==
  \E i \in 0..(Len(string) - Len(snippet)) :
    \A j \in 1..Len(snippet) : string[i + j] = snippet[j]

----------------------------------------------------------------------------
(* findRefs (src/cli.js:36-45). The result is the set of the names kept: the *)
(* callers use its length and its elements, never their order.              *)

\* findRefs without its test: every candidate name is returned
findRefsEveryName(json, refs, refPrefix) ==
  IF refs = Undefined THEN {} ELSE DOMAIN The(refs)

findRefs(json, refs, refPrefix) ==
  IF refs = Undefined THEN {}
  ELSE LET string == Stringify(json)
       IN {refKey \in DOMAIN The(refs) :
             LET snippet == <<DQ, "$ref", DQ, ":", DQ>> \o refPrefix \o refKey
                              \o <<DQ>>
             IN Includes(string, snippet)}

----------------------------------------------------------------------------
(* createSubset (src/cli.js:50-135) *)

\* operationFilter is null or a predicate over (operation, method, path); a
\* predicate is the set of <<path, method>> pairs it accepts.
\* filteredPathItem with every key of the path item tried, not only `methods`
filteredPathItemEveryKey(path, pathItem, filter) ==
  LET kept == {method \in DOMAIN pathItem :
                 /\ TruthyOperation(pathItem[method])
                 /\ ~(filter # Null /\ <<path, method>> \notin The(filter))}
  IN [method \in kept |-> pathItem[method]]

filteredPathItem(path, pathItem, filter) ==
  LET kept == {method \in Range(methods) :
                 /\ method \in DOMAIN pathItem
                 /\ TruthyOperation(pathItem[method])
                 /\ ~(filter # Null /\ <<path, method>> \notin The(filter))}
  IN [method \in kept |-> pathItem[method]]

\* lines 58-87: the entries of `paths` in order, each cut down to its
\* recognized and accepted methods, the empty ones dropped
filteredPaths(ps, filter) ==
  LET all == [i \in DOMAIN ps |->
                [path |-> ps[i].path,
                 item |-> filteredPathItem(ps[i].path, ps[i].item, filter)]]
      nonEmpty(e) == DOMAIN e.item # {}
  IN SelectSeq(all, nonEmpty)

\* lines 89-100
includeSchemas(sub, doc) ==
  LET schemas == IF doc.components = Undefined THEN Undefined
                 ELSE Get(The(doc.components), "schemas")
      neededRefs == findRefs(sub, schemas, schemasPrefix)
  IN IF neededRefs # {} /\ schemas # Undefined
     THEN sub @@ [components |->
            [schemas |->
               [refName \in {n \in neededRefs : The(schemas)[n].truthy}
                  |-> The(schemas)[refName]]]]
     ELSE sub

\* lines 115-131, one pass of the loop over componentTypes
includeComponentType(sub, doc, componentType) ==
  IF componentType \in DOMAIN The(doc.components)
  THEN LET componentRefs == findRefs(sub,
                                     Some(The(doc.components)[componentType]),
                                     componentPrefix(componentType))
           category == [refName \in componentRefs |->
                          The(doc.components)[componentType][refName]]
       IN IF componentRefs # {}
          THEN IF "components" \in DOMAIN sub
               THEN [sub EXCEPT !.components =
                       (componentType :> category) @@ @]
               ELSE sub @@ [components |-> (componentType :> category)]
          ELSE sub
  ELSE sub

RECURSIVE includeComponentTypes(_, _, _)
includeComponentTypes(sub, doc, i) ==
  IF i > Len(componentTypes) THEN sub
  ELSE includeComponentTypes(
         includeComponentType(sub, doc, componentTypes[i]), doc, i + 1)

createSubset(doc, ps, filter) ==
  LET start == [openapi |-> doc.openapi, info |-> doc.info,
                servers |-> doc.servers, paths |-> filteredPaths(ps, filter)]
      withSchemas == includeSchemas(start, doc)
  IN IF doc.components # Undefined
     THEN includeComponentTypes(withSchemas, doc, 1)
     ELSE withSchemas

----------------------------------------------------------------------------
(* The subset builder on its own: a document, a paths argument and a filter *)
(* are drawn, and createSubset is applied to them.                          *)

Document(info, ps, components, tagList) ==
  [openapi |-> "3.1.0", info |-> info, servers |-> <<>>, paths |-> ps,
   components |-> components, tags |-> tagList]

\* the places of a paths argument an operation may sit at; "x-verb" is a key
\* of a path item that is not one of `methods`
Slots == {<<PathP, "get">>, <<PathP, "post">>, <<PathP, "x-verb">>,
          <<PathQ, "get">>}

PathOrder == <<PathP, PathQ>>

\* the paths object holding operation ops[slot] at every slot of DOMAIN ops
PathsObject(ops) ==
  LET used(p) == \E s \in DOMAIN ops : s[1] = p
      item(p) == [k \in {s[2] : s \in {t \in DOMAIN ops : t[1] = p}} |->
                    ops[<<p, k>>]]
  IN [i \in DOMAIN SelectSeq(PathOrder, used) |->
        [path |-> SelectSeq(PathOrder, used)[i],
         item |-> item(SelectSeq(PathOrder, used)[i])]]

PlainOperations(components) ==
  {Operation(Undefined, Undefined, Undefined, refs) :
     refs \in RefLists(components, MaxRefs)}

PathsObjects(components) ==
  {PathsObject(ops) :
     ops \in UNION {[S -> PlainOperations(components) \cup {NullOperation}] :
                      S \in {T \in SUBSET Slots : Cardinality(T) <= MaxOps}}}

Filters ==
  {Null, Some({}), Some({<<PathP, "get">>}),
   Some({<<PathP, "post">>, <<PathQ, "get">>})}

\* the variables of the entry points a behaviour does not exercise
ProcessIdle ==
  /\ dereferenced = Undefined
  /\ files = << >>
  /\ operations = << >>
  /\ tags = << >>
  /\ tagInfo = << >>
  /\ cursor = 0
  /\ fetched = << >>
  /\ throwAt = Undefined
  /\ error = Undefined
  /\ exitCode = Undefined
  /\ disk = << >>

IdIdle ==
  /\ idArgs = Undefined
  /\ idResult = Undefined

FindIdle ==
  /\ findArgs = Undefined
  /\ findResult = Undefined

SubsetIdle ==
  /\ paths = << >>
  /\ operationFilter = Null
  /\ subset = Undefined

InitSubset ==
  /\ mode = "createSubset"
  /\ pc = "call"
  /\ \E components \in ComponentsChoices :
       /\ \E info \in {Body(TRUE, refs) : refs \in RefLists(components, 1)} :
            openapi = Document(info, <<>>, components, Undefined)
       /\ paths \in PathsObjects(components)
  /\ operationFilter \in Filters
  /\ subset = Undefined
  /\ ProcessIdle
  /\ IdIdle
  /\ FindIdle

CallCreateSubset ==
  /\ mode = "createSubset"
  /\ pc = "call"
  /\ subset' = Some(createSubset(openapi, paths, operationFilter))
  /\ pc' = "returned"
  /\ UNCHANGED <<mode, openapi, paths, operationFilter>>
  /\ UNCHANGED <<processVars, idVars, findVars>>

NextSubset == CallCreateSubset

SpecSubset == InitSubset /\ [][NextSubset]_vars

----------------------------------------------------------------------------
(* The derived operation identifier (src/cli.js:162-164 and 262-264) *)

Letters ==
  {"a", "b", "c", "d", "e", "f", "g", "h", "i", "j", "k", "l", "m", "n", "o",
   "p", "q", "r", "s", "t", "u", "v", "w", "x", "y", "z",
   "A", "B", "C", "D", "E", "F", "G", "H", "I", "J", "K", "L", "M", "N", "O",
   "P", "Q", "R", "S", "T", "U", "V", "W", "X", "Y", "Z"}

Digits == {"0", "1", "2", "3", "4", "5", "6", "7", "8", "9"}

\* the characters of a method name
MethodChars ==
  [get |-> <<"g", "e", "t">>, post |-> <<"p", "o", "s", "t">>,
   put |-> <<"p", "u", "t">>, patch |-> <<"p", "a", "t", "c", "h">>,
   delete |-> <<"d", "e", "l", "e", "t", "e">>,
   head |-> <<"h", "e", "a", "d">>,
   options |-> <<"o", "p", "t", "i", "o", "n", "s">>,
   trace |-> <<"t", "r", "a", "c", "e">>]

\* str.slice(1)
Slice1(str) == SubSeq(str, 2, Len(str))

\* str.replace(/[^a-zA-Z0-9]/g, "_")
ReplaceNonAlnum(str) ==
  [i \in DOMAIN str |->
     IF str[i] \in Letters \cup Digits THEN str[i] ELSE "_"]

\* JS truthiness of an optional string: present and not empty
TruthyString(o) == o # Undefined /\ The(o) # << >>

\* the derivation without slice(1): the leading slash becomes an underscore
operationIdWholePath(operation, path, method) ==
  IF TruthyString(operation.operationId) THEN The(operation.operationId)
  ELSE ReplaceNonAlnum(path) \o <<"_">> \o MethodChars[method]

\* processOpenAPI, lines 262-264
operationIdOf(operation, path, method) ==
  IF TruthyString(operation.operationId) THEN The(operation.operationId)
  ELSE ReplaceNonAlnum(Slice1(path)) \o <<"_">> \o MethodChars[method]

\* generateLlmsTxt, lines 162-164
llmsOperationIdOf(operation, path, method) ==
  IF TruthyString(operation.operationId) THEN The(operation.operationId)
  ELSE ReplaceNonAlnum(Slice1(path)) \o <<"_">> \o MethodChars[method]

----------------------------------------------------------------------------
(* The flattener, dereferenceSync of @trojs/openapi-dereference (imported   *)
(* at src/cli.js:5, called at line 227): a deep copy of the document with   *)
(* every pointer replaced by the body it points to.                         *)

RECURSIVE Resolve(_, _)
Resolve(components, ptr) ==
  LET body == The(components)[ptr[1]][ptr[2]]
  IN [truthy |-> body.truthy, refs |-> << >>,
      inlined |-> [i \in DOMAIN body.refs |->
                     Resolve(components, body.refs[i])]]

\* an operation object or a body with its pointers resolved in place
Flatten(components, node) ==
  [node EXCEPT !.refs = << >>,
               !.inlined = [i \in DOMAIN node.refs |->
                              Resolve(components, node.refs[i])]]

dereferenceSync(doc) ==
  [doc EXCEPT
     !.info = Flatten(doc.components, @),
     !.paths = [i \in DOMAIN @ |->
                  [path |-> @[i].path,
                   item |-> [k \in DOMAIN @[i].item |->
                               Flatten(doc.components, @[i].item[k])]]],
     !.components =
        IF @ = Undefined THEN Undefined
        ELSE Some([c \in DOMAIN The(@) |->
                     [n \in DOMAIN The(@)[c] |->
                        Flatten(doc.components, The(@)[c][n])]])]

----------------------------------------------------------------------------
(* fetchExternalDocs (src/cli.js:11-31). What the network does is an input: *)
(* fetch or response.text() throws, or a response comes back with a status  *)
(* and a body.                                                              *)

FetchOutcomes ==
  {[threw |-> TRUE, ok |-> FALSE, text |-> << >>],
   [threw |-> FALSE, ok |-> FALSE, text |-> <<"E">>],
   [threw |-> FALSE, ok |-> TRUE, text |-> <<"#">>]}

\* What a call does: it returns a value (null or the text), or an exception
\* leaves it.
Returns(value) == [threw |-> FALSE, value |-> value]
Throws == [threw |-> TRUE, value |-> Null]

\* fetchExternalDocs without its try/catch: what fetch throws leaves the call
fetchExternalDocsUncaught(outcome) ==
  IF outcome.threw THEN Throws
  ELSE IF ~outcome.ok THEN Returns(Null)
  ELSE Returns(Some(outcome.text))

fetchExternalDocs(outcome) ==
  IF outcome.threw THEN Returns(Null)
  ELSE IF ~outcome.ok THEN Returns(Null)
  ELSE Returns(Some(outcome.text))

----------------------------------------------------------------------------
(* processOpenAPI (src/cli.js:222-392) *)

\* A key of the file map, `${dir}${stem}${ext}`. Two keys are the same string
\* exactly when the three parts agree: the directories are fixed and start
\* differently, and no two of the extensions end alike.
FileKey(dir, stem, ext) == [dir |-> dir, stem |-> stem, ext |-> ext]

Untagged == <<"u", "n", "t", "a", "g", "g", "e", "d">>

LlmsKey == FileKey("", <<"l", "l", "m", "s">>, ".txt")
OperationKey(operationId) == FileKey("operations/", operationId, ".yaml")
OperationDocsKey(operationId) == FileKey("operations/", operationId, "-docs.md")
TagKey(tag) == FileKey("tags/", tag, ".yaml")
TagDocsKey(tag) == FileKey("tags/", tag, "-docs.md")
UntaggedKey == FileKey("tags/", Untagged, ".yaml")

\* files[key] = { content }
SetFile(f, key, content) ==
  [k \in DOMAIN f \cup {key} |->
     IF k = key THEN [content |-> content] ELSE f[k]]

\* dump(value, { noRefs: true, indent: 2 }): the YAML text of a document. With
\* noRefs the text has no anchors or aliases, so it is the document's tree
\* written out, and two trees have the same text exactly when they are equal.
dump(value) == <<"yaml", value>>

\* the <<path, method>> places of a paths object in the order the loops visit
\* them: the paths in document order, the methods in the order of `methods`
RecognizedOps(ps) ==
  Concat([i \in DOMAIN ps |->
    LET present(m) == m \in DOMAIN ps[i].item
    IN [k \in DOMAIN SelectSeq(methods, present) |->
          [path |-> ps[i].path, method |-> SelectSeq(methods, present)[k],
           operation |-> ps[i].item[SelectSeq(methods, present)[k]]]]])

\* generateLlmsTxt (lines 140-217): one line per operation
generateLlmsTxt(doc) ==
  LET ops == RecognizedOps(doc.paths)
  IN [i \in DOMAIN ops |->
        [operationId |->
           llmsOperationIdOf(ops[i].operation, ops[i].path, ops[i].method),
         method |-> ops[i].method, path |-> ops[i].path]]

\* Set.prototype.add for each element of a list
RECURSIVE AddAll(_, _)
AddAll(set, list) ==
  IF list = << >> THEN set
  ELSE AddAll(IF Head(list) \in Range(set) THEN set
              ELSE Append(set, Head(list)), Tail(list))

\* lines 238-242: later descriptors of a name replace earlier ones
RECURSIVE TagInfoOf(_)
TagInfoOf(list) ==
  IF list = << >> THEN << >>
  ELSE LET front == TagInfoOf(SubSeq(list, 1, Len(list) - 1))
           last == list[Len(list)]
       IN [n \in DOMAIN front \cup {last.name} |->
             IF n = last.name THEN last ELSE front[n]]

\* line 322: operation.tags?.includes(tag)
HasTag(operation, tag) ==
  operation.tags # Undefined /\ tag \in Range(The(operation.tags))

\* line 370: !operation.tags || operation.tags.length === 0
IsUntagged(operation) ==
  operation.tags = Undefined \/ The(operation.tags) = << >>

\* lines 301-330: the paths of the document cut down to the operations under
\* recognized methods that carry the tag, the empty path items dropped
tagPathsOf(ps, tag) ==
  LET all == [i \in DOMAIN ps |->
                [path |-> ps[i].path,
                 item |-> [m \in {m \in Range(methods) :
                                    /\ m \in DOMAIN ps[i].item
                                    /\ HasTag(ps[i].item[m], tag)} |->
                             ps[i].item[m]]]]
      nonEmpty(e) == DOMAIN e.item # {}
  IN SelectSeq(all, nonEmpty)

\* lines 350-378: the same for the operations without tags
untaggedPathsOf(ps) ==
  LET all == [i \in DOMAIN ps |->
                [path |-> ps[i].path,
                 item |-> [m \in {m \in Range(methods) :
                                    /\ m \in DOMAIN ps[i].item
                                    /\ IsUntagged(ps[i].item[m])} |->
                             ps[i].item[m]]]]
      nonEmpty(e) == DOMAIN e.item # {}
  IN SelectSeq(all, nonEmpty)

\* the loop that runs next: the first of the remaining loops with an
\* iteration left, or the untagged step after them
RECURSIVE Position(_, _, _, _, _)
Position(phase, idx, nWork, nOps, nTags) ==
  IF phase = "collect"
  THEN IF idx <= nWork THEN <<phase, idx>>
       ELSE Position("operations", 1, nWork, nOps, nTags)
  ELSE IF phase = "operations"
  THEN IF idx <= nOps THEN <<phase, idx>>
       ELSE Position("tags", 1, nWork, nOps, nTags)
  ELSE IF phase = "tags"
  THEN IF idx <= nTags THEN <<phase, idx>> ELSE <<"untagged", 1>>
  ELSE <<phase, idx>>

Goto(phase, idx, flat, nOps, nTags) ==
  LET to == Position(phase, idx, Len(RecognizedOps(flat.paths)), nOps, nTags)
  IN pc' = to[1] /\ cursor' = to[2]

\* the statements of processOpenAPI run when it is called directly and when
\* runCLI calls it (line 425)
Processing == mode \in {"processOpenAPI", "runCLI"}

\* a process.exit that returns to its caller: the statements after it run
processExitReturns(code) == pc' = "done" /\ exitCode' = exitCode

\* process.exit(code) (lines 388 and 419): the process ends inside the call
\* with this exit code, and no statement after the call runs
processExit(code) == pc' = "exit" /\ exitCode' = Some(code)

\* A statement inside the try of lines 225-385 throws when the behaviour is at
\* the loop position throwAt names: dereferenceSync or generateLlmsTxt at the
\* start, `operationTags.forEach` on a tags value that is no array (line 275),
\* JSON.stringify inside createSubset, dump.
Throwing == throwAt = Some(<<pc, cursor>>)

\* lines 386-389: the catch binds the exception, logs it and ends the process
catchError(e) == error' = Some(e) /\ processExit(1)

\* `if (x.externalDocs?.url)`, the fetch and `if (docs) files[key] = ...`
\* (lines 278-283 and 340-345), then on to the loop position given. An
\* exception that leaves the awaited call is caught at line 386, where the
\* process exits.
FetchDocs(f, externalDocs, key, phase, idx) ==
  IF externalDocs # Undefined /\ TruthyString(The(externalDocs).url)
  THEN \E outcome \in FetchOutcomes :
         LET docs == fetchExternalDocs(outcome)
         IN /\ fetched' = Append(fetched, [key |-> key, outcome |-> outcome])
            /\ IF docs.threw
               THEN /\ files' = f
                    /\ cursor' = cursor
                    /\ catchError(<<"fetch", cursor>>)
               ELSE /\ files' = IF TruthyString(docs.value)
                                 THEN SetFile(f, key, The(docs.value)) ELSE f
                    /\ Goto(phase, idx, The(dereferenced), Len(operations'),
                            Len(tags'))
                    /\ UNCHANGED <<error, exitCode>>
  ELSE /\ files' = f
       /\ fetched' = fetched
       /\ Goto(phase, idx, The(dereferenced), Len(operations'), Len(tags'))
       /\ UNCHANGED <<error, exitCode>>

\* lines 223-242
Start ==
  /\ Processing
  /\ pc = "start"
  /\ IF Throwing
     THEN /\ catchError(<<pc, cursor>>)
          /\ UNCHANGED <<dereferenced, files, tagInfo, cursor>>
     ELSE /\ dereferenced' = Some(dereferenceSync(openapi))
          /\ files' = SetFile(<< >>, LlmsKey,
                              generateLlmsTxt(dereferenceSync(openapi)))
          /\ tagInfo' = IF openapi.tags = Undefined THEN << >>
                        ELSE TagInfoOf(The(openapi.tags))
          /\ Goto("collect", 1, dereferenceSync(openapi), 0, 0)
          /\ UNCHANGED <<error, exitCode>>
  /\ UNCHANGED <<mode, operations, tags, fetched, throwAt, disk, subsetVars,
                 idVars, findVars>>

\* lines 244-285, one operation of the document
CollectOperation ==
  /\ Processing
  /\ pc = "collect"
  /\ IF Throwing
     THEN /\ catchError(<<pc, cursor>>)
          /\ UNCHANGED <<operations, tags, files, fetched, cursor>>
     ELSE LET at == RecognizedOps(The(dereferenced).paths)[cursor]
              operation == at.operation
              operationId == operationIdOf(operation, at.path, at.method)
              operationTags == IF operation.tags = Undefined THEN << >>
                               ELSE The(operation.tags)
          IN /\ operations' = Append(operations,
                  [operationId |-> operationId, path |-> at.path,
                   method |-> at.method, operation |-> operation,
                   tags |-> operationTags])
             /\ tags' = AddAll(tags, operationTags)
             /\ FetchDocs(files, operation.externalDocs,
                          OperationDocsKey(operationId), "collect", cursor + 1)
  /\ UNCHANGED <<mode, dereferenced, tagInfo, throwAt, disk, subsetVars,
                 idVars, findVars>>

\* lines 288-297, one collected operation
GenerateOperationFile ==
  /\ Processing
  /\ pc = "operations"
  /\ IF Throwing
     THEN /\ catchError(<<pc, cursor>>)
          /\ UNCHANGED <<files, cursor>>
     ELSE /\ LET op == operations[cursor]
                 operationSubset ==
                   createSubset(openapi,
                                <<[path |-> op.path,
                                   item |-> (op.method :> op.operation)]>>,
                                Null)
             IN files' = SetFile(files, OperationKey(op.operationId),
                                 dump(operationSubset))
          /\ Goto("operations", cursor + 1, The(dereferenced),
                  Len(operations), Len(tags))
          /\ UNCHANGED <<error, exitCode>>
  /\ UNCHANGED <<mode, dereferenced, operations, tags, tagInfo, fetched,
                 throwAt, disk, subsetVars, idVars, findVars>>

\* lines 300-347, one tag
GenerateTagFile ==
  /\ Processing
  /\ pc = "tags"
  /\ UNCHANGED <<mode, dereferenced, operations, tags, tagInfo, throwAt, disk,
                 subsetVars, idVars, findVars>>
  /\ IF Throwing
     THEN /\ catchError(<<pc, cursor>>)
          /\ UNCHANGED <<files, fetched, cursor>>
     ELSE LET tag == tags[cursor]
              tagPaths == tagPathsOf(openapi.paths, tag)
          IN IF Len(tagPaths) > 0
             THEN LET tagSubset == createSubset(openapi, tagPaths, Null)
                      tagData == Get(tagInfo, tag)
                  IN FetchDocs(SetFile(files, TagKey(tag), dump(tagSubset)),
                               IF tagData = Undefined THEN Undefined
                               ELSE The(tagData).externalDocs,
                               TagDocsKey(tag), "tags", cursor + 1)
             ELSE /\ UNCHANGED <<files, fetched, error, exitCode>>
                  /\ Goto("tags", cursor + 1, The(dereferenced),
                          Len(operations), Len(tags))

\* lines 349-391: the untagged operations, then `return files`
HandleUntagged ==
  /\ Processing
  /\ pc = "untagged"
  /\ IF Throwing
     THEN /\ catchError(<<pc, cursor>>)
          /\ UNCHANGED files
     ELSE /\ LET untaggedPaths == untaggedPathsOf(openapi.paths)
             IN files' = IF Len(untaggedPaths) > 0
                         THEN SetFile(files, UntaggedKey,
                                dump(createSubset(openapi, untaggedPaths,
                                                  Null)))
                         ELSE files
          /\ pc' = "done"
          /\ UNCHANGED <<error, exitCode>>
  /\ UNCHANGED <<mode, dereferenced, operations, tags, tagInfo, cursor,
                 fetched, throwAt, disk, subsetVars, idVars, findVars>>

----------------------------------------------------------------------------
(* The partition driver on the documents of a bounded family *)

PathDash == <<"/", "p", "-", "q">>
PathUnder == <<"/", "p", "_", "q">>

PetTag == <<"p", "e", "t">>

DocsUrl == <<"h", "t", "t", "p", "s", ":", "/", "/", "d">>

ExternalDocsChoices == {Undefined, Some([url |-> Some(DocsUrl)])}

\* the operation objects of a document with these components: with or without
\* an explicit identifier, tags (absent, empty, one, a tag named like the
\* untagged bucket, two), external docs, a pointer to schema Pet
ProcessOperations(components) ==
  {Operation(id, tg, docs, refs) :
     id \in {Undefined, Some(<<"x">>)},
     tg \in {Undefined, Some(<< >>), Some(<<PetTag>>), Some(<<Untagged>>),
             Some(<<PetTag, Untagged>>)},
     docs \in ExternalDocsChoices,
     refs \in {r \in {<< >>, <<SchemaPet>>} :
                 \A i \in DOMAIN r : Defined(components, r[i])}}

\* two paths whose derived identifiers coincide, two methods, and a key of a
\* path item that is no method
VerbSlot == <<PathUnder, "x-verb">>

ProcessSlots ==
  {<<PathDash, "get">>, <<PathDash, "delete">>, <<PathUnder, "get">>, VerbSlot}

ProcessPathOrder == <<PathDash, PathUnder>>

ProcessPathsObject(ops) ==
  LET used(p) == \E s \in DOMAIN ops : s[1] = p
      item(p) == [k \in {s[2] : s \in {t \in DOMAIN ops : t[1] = p}} |->
                    ops[<<p, k>>]]
  IN [i \in DOMAIN SelectSeq(ProcessPathOrder, used) |->
        [path |-> SelectSeq(ProcessPathOrder, used)[i],
         item |-> item(SelectSeq(ProcessPathOrder, used)[i])]]

\* the document's `tags` list: absent, or a descriptor with external docs
TagListChoices ==
  {Undefined,
   Some(<<[name |-> PetTag, externalDocs |-> Some([url |-> Some(DocsUrl)])]>>)}

ProcessComponentsChoices ==
  {Undefined,
   Some([schemas |-> (Pet :> PetBody @@ Pets :> PetsBody),
         parameters |-> (Lim :> LimBody),
         headers |-> (Lim :> HeaderBody)])}

InitProcess ==
  /\ mode = "processOpenAPI"
  /\ pc = "start"
  /\ \E components \in ProcessComponentsChoices :
       \E S \in {T \in SUBSET ProcessSlots : Cardinality(T) <= MaxOps} :
         \E ops \in {f \in [S -> ProcessOperations(components)] :
                        VerbSlot \in S =>
                          f[VerbSlot] = Operation(Undefined, Undefined,
                                                  Undefined, << >>)} :
           \E tagList \in TagListChoices :
             openapi = Document(Body(TRUE, << >>), ProcessPathsObject(ops),
                                components, tagList)
  /\ ProcessIdle
  /\ SubsetIdle
  /\ IdIdle
  /\ FindIdle

Next == \/ Start
        \/ CollectOperation
        \/ GenerateOperationFile
        \/ GenerateTagFile
        \/ HandleUntagged

Spec == InitProcess /\ [][Next]_vars

Done == mode = "processOpenAPI" /\ pc = "done"

----------------------------------------------------------------------------
(* runCLI (src/cli.js:397-445): the document is read from the working       *)
(* directory, processOpenAPI is called, and the file map it returns is      *)
(* written out.                                                             *)

OpenapiStem == <<"o", "p", "e", "n", "a", "p", "i">>

\* the file names tried, in the order of lines 404-414
openapiFiles ==
  <<FileKey("", OpenapiStem, ".json"), FileKey("", OpenapiStem, ".yaml"),
    FileKey("", OpenapiStem, ".yml")>>

\* JSON.parse and load: the text of a file is the tree it denotes under the
\* format it is written in
TextOf(format, doc) == <<format, doc>>
parse(text) == text[2]

\* lines 398-425: the first of the three files that exists is parsed and
\* processOpenAPI is entered; without any of them the process exits
RunCLI ==
  /\ mode = "runCLI"
  /\ pc = "cli"
  /\ LET exists(key) == key \in DOMAIN disk
         found == SelectSeq(openapiFiles, exists)
     IN IF found # << >>
        THEN /\ openapi' = parse(disk[Head(found)].content)
             /\ pc' = "start"
             /\ exitCode' = exitCode
        ELSE /\ openapi' = openapi
             /\ processExit(1)
  /\ UNCHANGED <<mode, paths, operationFilter, subset, dereferenced, files,
                 operations, tags, tagInfo, cursor, fetched, throwAt, error,
                 disk, idVars, findVars>>

\* lines 428-439: every entry of the file map returned is written
WriteFiles ==
  /\ mode = "runCLI"
  /\ pc = "done"
  /\ disk' = [k \in DOMAIN disk \cup DOMAIN files |->
                IF k \in DOMAIN files THEN files[k] ELSE disk[k]]
  /\ pc' = "written"
  /\ UNCHANGED <<mode, subsetVars, dereferenced, files, operations, tags,
                 tagInfo, cursor, fetched, throwAt, error, exitCode, idVars, findVars>>

\* the operations of the documents runCLI is given: tags and external docs
\* vary, the identifier is derived
CliOperations ==
  {Operation(Undefined, tg, docs, refs) :
     tg \in {Undefined, Some(<<PetTag>>), Some(<<PetTag, Untagged>>)},
     docs \in ExternalDocsChoices,
     refs \in {<< >>, <<SchemaPet>>}}

CliSlots == {<<PathDash, "get">>, <<PathUnder, "delete">>}

CliDocuments ==
  {Document(Body(TRUE, << >>), ProcessPathsObject(ops),
            Some([schemas |-> (Pet :> PetBody @@ Pets :> PetsBody),
                  parameters |-> (Lim :> LimBody),
                  headers |-> (Lim :> HeaderBody)]),
            Undefined) :
     ops \in UNION {[S -> CliOperations] :
                      S \in {T \in SUBSET CliSlots : Cardinality(T) <= MaxOps}}}

\* the loop positions a statement may throw at
ThrowPoints ==
  {<<"start", 0>>, <<"untagged", 1>>}
    \cup {<<phase, i>> : phase \in {"collect", "operations", "tags"},
                         i \in 1..MaxOps}

\* the working directories: no document, openapi.json, or openapi.yaml
\* beside an openapi.yml
Disks(doc) ==
  { << >>,
    openapiFiles[1] :> [content |-> TextOf("json", doc)],
    openapiFiles[2] :> [content |-> TextOf("yaml", doc)]
      @@ openapiFiles[3] :> [content |-> TextOf("yaml", doc)] }

InitCLI ==
  /\ mode = "runCLI"
  /\ pc = "cli"
  /\ openapi = Undefined
  /\ \E doc \in CliDocuments : disk \in Disks(doc)
  /\ throwAt \in {Undefined} \cup {Some(at) : at \in ThrowPoints}
  /\ error = Undefined
  /\ exitCode = Undefined
  /\ dereferenced = Undefined
  /\ files = << >>
  /\ operations = << >>
  /\ tags = << >>
  /\ tagInfo = << >>
  /\ cursor = 0
  /\ fetched = << >>
  /\ SubsetIdle
  /\ IdIdle
  /\ FindIdle

NextCLI == \/ RunCLI
           \/ Start
           \/ CollectOperation
           \/ GenerateOperationFile
           \/ GenerateTagFile
           \/ HandleUntagged
           \/ WriteFiles

SpecCLI == InitCLI /\ [][NextCLI]_vars

----------------------------------------------------------------------------
(* The identifier derivation on its own: an operation, a path and a method  *)
(* are drawn, and both places that derive the identifier are applied.       *)

\* characters a path holds after its leading slash, at most
MaxPathChars == 2

PathChars == {"p", "P", "7", "-", "_", "/", "{"}

RECURSIVE Strings(_, _)
Strings(chars, n) ==
  IF n = 0 THEN {<< >>}
  ELSE LET shorter == Strings(chars, n - 1)
       IN shorter \cup {Append(str, c) : str \in shorter, c \in chars}

IdPaths == {<<"/">> \o rest : rest \in Strings(PathChars, MaxPathChars)}

InitId ==
  /\ mode = "operationId"
  /\ pc = "call"
  /\ \E id \in {Undefined, Some(<< >>), Some(<<"x">>)} :
       \E path \in IdPaths :
         \E method \in Range(methods) :
           idArgs = Some([operation |->
                            Operation(id, Undefined, Undefined, << >>),
                          path |-> path, method |-> method])
  /\ idResult = Undefined
  /\ openapi = Undefined
  /\ SubsetIdle
  /\ ProcessIdle
  /\ FindIdle

DeriveOperationId ==
  /\ mode = "operationId"
  /\ pc = "call"
  /\ LET a == The(idArgs)
     IN idResult' =
          Some([process |-> operationIdOf(a.operation, a.path, a.method),
                llms |-> llmsOperationIdOf(a.operation, a.path, a.method)])
  /\ pc' = "returned"
  /\ UNCHANGED <<mode, idArgs, subsetVars, processVars, findVars>>

NextId == DeriveOperationId

SpecId == InitId /\ [][NextId]_vars

----------------------------------------------------------------------------
(* The reference scanner on its own: a fragment, a candidate mapping and a  *)
(* prefix are drawn, and findRefs is applied to them.                       *)

\* names JSON writes with an escape: a\b and a\\b
Esc == <<"a", BS, "b">>
Esc2 == <<"a", BS, BS, "b">>

FindNames == {Pet, Pets, Esc, Esc2}

\* the pointers a fragment may hold, in a fixed order
FindPointers ==
  <<SchemaPet, SchemaPets, <<"schemas", Esc>>, <<"schemas", Esc2>>,
    <<"parameters", Pet>>, <<"parameters", Pets>>, <<"parameters", Esc>>,
    <<"parameters", Esc2>>>>

\* the lists of at most max of them
FindRefLists(max) ==
  LET pick(S) == LET idx == [i \in DOMAIN FindPointers |-> i]
                     test(i) == i \in S
                 IN [k \in DOMAIN SelectSeq(idx, test) |->
                       FindPointers[SelectSeq(idx, test)[k]]]
  IN {pick(S) : S \in {T \in SUBSET DOMAIN FindPointers :
                         Cardinality(T) <= max}}

\* a string value that reads like a pointer to schema Pet
PointerText ==
  <<DQ, "$ref", DQ, ":", DQ, "#/components/", "schemas", "/">> \o Pet
    \o <<DQ>>

\* the fragments: an info object holding pointers and, or not, the string
\* value above; a paths object that is empty or has one operation with at
\* most one pointer
Fragments ==
  {[info |-> info, paths |-> ps] :
     info \in {Body(TRUE, refs) : refs \in FindRefLists(MaxRefs)}
              \cup {[description |-> PointerText] @@ Body(TRUE, refs) :
                      refs \in FindRefLists(MaxRefs)},
     ps \in {<< >>}
            \cup {<<[path |-> PathP,
                     item |-> ("get" :> Operation(Undefined, Undefined,
                                                  Undefined, refs))]>> :
                    refs \in FindRefLists(1)}}

\* the candidate mappings: absent, or an object with some of the names as keys
Candidates ==
  {Undefined} \cup {Some([n \in S |-> Body(TRUE, << >>)]) : S \in SUBSET FindNames}

InitFindRefs ==
  /\ mode = "findRefs"
  /\ pc = "call"
  /\ \E json \in Fragments :
       \E refs \in Candidates :
         \E refPrefix \in {schemasPrefix, componentPrefix("parameters")} :
           findArgs = Some([json |-> json, refs |-> refs,
                            refPrefix |-> refPrefix])
  /\ findResult = Undefined
  /\ openapi = Undefined
  /\ SubsetIdle
  /\ ProcessIdle
  /\ IdIdle

CallFindRefs ==
  /\ mode = "findRefs"
  /\ pc = "call"
  /\ LET a == The(findArgs)
     IN findResult' = Some(findRefs(a.json, a.refs, a.refPrefix))
  /\ pc' = "returned"
  /\ UNCHANGED <<mode, findArgs, subsetVars, processVars, idVars>>

NextFindRefs == CallFindRefs

SpecFindRefs == InitFindRefs /\ [][NextFindRefs]_vars

----------------------------------------------------------------------------
(* What a subset holds, read off its structure (not off its JSON text) *)

\* the pointers that occur inside a paths object
PointersInPaths(ps) ==
  UNION {UNION {Range(ps[i].item[k].refs) : k \in DOMAIN ps[i].item} :
           i \in DOMAIN ps}

\* the <<path, method>> pairs a paths object retains
PairsIn(ps) ==
  UNION {{<<ps[i].path, k>> : k \in DOMAIN ps[i].item} : i \in DOMAIN ps}

\* <<category, name>> of every definition a subset carries
Included(sub) ==
  IF "components" \in DOMAIN sub
  THEN UNION {{<<c, n>> : n \in DOMAIN sub.components[c]} :
                c \in DOMAIN sub.components}
  ELSE {}

\* the order createSubset scans the categories in: schemas (line 90), then
\* componentTypes (line 115)
ScanOrder == <<"schemas">> \o componentTypes

ScanIndex(category) == CHOOSE i \in DOMAIN ScanOrder : ScanOrder[i] = category

\* the pointers inside the definitions a subset carries under the categories
\* scanned before `category`
PointersInEarlier(sub, category) ==
  UNION {Range(sub.components[d[1]][d[2]].refs) :
           d \in {e \in Included(sub) : ScanIndex(e[1]) < ScanIndex(category)}}

Returned == mode = "createSubset" /\ pc = "returned"

----------------------------------------------------------------------------
(* Claims about createSubset *)

\* C1 (as claimed): every pointer that occurs inside the paths of the subset
\* createSubset returns has its target among the subset's own components.
C1_ClosureSound ==
  Returned =>
    \A ptr \in PointersInPaths(The(subset).paths) : ptr \in Included(The(subset))

\* C2 (as claimed): a definition is carried by the subset only if a pointer to it
\* occurs in the paths the subset keeps.
C2_OnlyPointedFromPaths ==
  Returned =>
    \A d \in Included(The(subset)) : d \in PointersInPaths(The(subset).paths)

\* C2 (amended): a definition is carried by the subset only if a pointer to it
\* occurs in what createSubset had built when it scanned the definition's
\* category: the kept paths, the copied info, or a definition already carried
\* under a category scanned earlier. A pointer inside a carried definition to a
\* definition of the same category, or of one scanned earlier, includes nothing.
C2_OnlyPointedFromScanned ==
  Returned =>
    \A d \in Included(The(subset)) :
      d \in PointersInPaths(The(subset).paths)
              \cup Range(The(subset).info.refs)
              \cup PointersInEarlier(The(subset), d[1])

\* Pet is carried because a kept operation points to it; Pet points to Pets
\* (same category), which the document defines and the subset leaves out; Pet
\* also points to parameter Lim, which is carried although no path points to it.
C2_Witness ==
  /\ Returned
  /\ SchemaPet \in PointersInPaths(The(subset).paths)
  /\ SchemaPet \in Included(The(subset))
  /\ Defined(openapi.components, SchemaPets)
  /\ SchemaPets \notin Included(The(subset))
  /\ ParamLim \in Included(The(subset))
  /\ ParamLim \notin PointersInPaths(The(subset).paths)

\* C8 (as claimed): every category present under the subset's components holds
\* at least one definition.
C8_NoEmptyCategory ==
  Returned =>
    ("components" \in DOMAIN The(subset) =>
       /\ DOMAIN The(subset).components # {}
       /\ \A c \in DOMAIN The(subset).components :
            DOMAIN The(subset).components[c] # {})

----------------------------------------------------------------------------
(* What the document and the file map hold *)

\* the operations of the document under recognized methods
DocOps == Range(RecognizedOps(openapi.paths))

IdOf(o) == operationIdOf(o.operation, o.path, o.method)

ObservedTags ==
  UNION {IF o.operation.tags = Undefined THEN {}
         ELSE Range(The(o.operation.tags)) : o \in DocOps}

\* the subset document a .yaml entry of the file map was dumped from
YamlOf(key) == files[key].content[2]

OperationFileKeys ==
  {k \in DOMAIN files : k.dir = "operations/" /\ k.ext = ".yaml"}

\* the operation of the document at a place
OriginalAt(path, method) ==
  (CHOOSE o \in DocOps : o.path = path /\ o.method = method).operation

Failed(outcome) == outcome.threw \/ ~outcome.ok

\* no two operations share an identifier, and no tag is named like the
\* untagged bucket while some operation is untagged
NoKeyClash ==
  /\ \A o1, o2 \in DocOps : IdOf(o1) = IdOf(o2) => o1 = o2
  /\ ~(Untagged \in ObservedTags
        /\ \E o \in DocOps : IsUntagged(o.operation))

----------------------------------------------------------------------------
(* Claims about processOpenAPI *)

\* C3 (as claimed): every operation object in an operation partition is the
\* operation of the original document, pointers intact; hence the partition
\* of a tag carried by exactly one operation has the same paths as that
\* operation's partition, and an operation that points to schema Pet has Pet
\* under components.schemas of its partition.
C3_OriginalOperations ==
  Done =>
    /\ \A k \in OperationFileKeys :
         \A i \in DOMAIN YamlOf(k).paths :
           \A m \in DOMAIN YamlOf(k).paths[i].item :
             YamlOf(k).paths[i].item[m] = OriginalAt(YamlOf(k).paths[i].path, m)
    /\ NoKeyClash =>
         /\ \A t \in ObservedTags :
              \A o \in DocOps :
                {p \in DocOps : HasTag(p.operation, t)} = {o} =>
                  YamlOf(TagKey(t)).paths = YamlOf(OperationKey(IdOf(o))).paths
         /\ \A o \in DocOps :
              SchemaPet \in Range(o.operation.refs) =>
                SchemaPet \in Included(YamlOf(OperationKey(IdOf(o))))

\* C4 (as claimed): every <<path, method>> of the document under a recognized
\* method is retained by exactly one operation partition of the file map.
C4_PartitionComplete ==
  Done =>
    \A o \in DocOps :
      Cardinality({k \in OperationFileKeys :
                     <<o.path, o.method>> \in PairsIn(YamlOf(k).paths)}) = 1

\* C5 (as claimed): for every tag some operation carries, tags/<tag>.yaml
\* retains exactly the operations whose tag list holds the tag.
C5_TagPartition ==
  Done =>
    \A t \in ObservedTags :
      /\ TagKey(t) \in DOMAIN files
      /\ PairsIn(YamlOf(TagKey(t)).paths)
           = {<<o.path, o.method>> : o \in {p \in DocOps : HasTag(p.operation, t)}}

\* C6 (as claimed): tags/untagged.yaml retains exactly the operations whose
\* tag list is empty or absent, and is absent when there is none.
C6_UntaggedPartition ==
  Done =>
    LET bare == {o \in DocOps : IsUntagged(o.operation)}
    IN IF bare = {} THEN UntaggedKey \notin DOMAIN files
       ELSE /\ UntaggedKey \in DOMAIN files
            /\ PairsIn(YamlOf(UntaggedKey).paths)
                 = {<<o.path, o.method>> : o \in bare}

\* C7 (as claimed): no two writes of one run go to the same key of the file
\* map: the map returned holds one entry per write (llms.txt, one per
\* operation, one per tag, the untagged partition if any, one per fetch that
\* produced docs).
C7_DistinctKeys ==
  Done =>
    Cardinality(DOMAIN files)
      = 1 + Len(operations) + Len(tags)
          + (IF \E o \in DocOps : IsUntagged(o.operation) THEN 1 ELSE 0)
          + Cardinality({i \in DOMAIN fetched : ~Failed(fetched[i].outcome)})

\* the items of the document that declare external docs: its operations, and
\* the observed tags whose descriptor does
DocsItems ==
  Cardinality({o \in DocOps : o.operation.externalDocs # Undefined})
  + Cardinality({t \in ObservedTags :
                   /\ openapi.tags # Undefined
                   /\ \E i \in DOMAIN The(openapi.tags) :
                        /\ The(openapi.tags)[i].name = t
                        /\ The(openapi.tags)[i].externalDocs # Undefined})

\* C10: a fetch that throws or answers non-2xx leaves no -docs.md entry of its
\* own and does not stop the run: the process never exits from the catch of
\* processOpenAPI, every item's fetch is still made, every operation, tag and untagged
\* partition is in the file map returned, and so is the docs entry of every
\* fetch that succeeded.
C10_FetchFailureLocal ==
  mode = "processOpenAPI" =>
    /\ pc # "exit"
    /\ \A i \in DOMAIN fetched :
         IF Failed(fetched[i].outcome)
         THEN fetched[i].key \in DOMAIN files =>
                \E j \in DOMAIN fetched :
                  /\ fetched[j].key = fetched[i].key
                  /\ ~Failed(fetched[j].outcome)
         ELSE fetched[i].key \in DOMAIN files
    /\ Done =>
         /\ Len(fetched) = DocsItems
         /\ \A o \in DocOps : OperationKey(IdOf(o)) \in DOMAIN files
         /\ \A t \in ObservedTags : TagKey(t) \in DOMAIN files
         /\ (\E o \in DocOps : IsUntagged(o.operation)) =>
              UntaggedKey \in DOMAIN files

\* a run that returned after one fetch threw, one answered non-2xx and one
\* succeeded, the failed ones without an entry and the other with its own
C10_Witness ==
  /\ Done
  /\ \E i, j, k \in DOMAIN fetched :
       /\ fetched[i].outcome.threw
       /\ ~fetched[j].outcome.threw /\ ~fetched[j].outcome.ok
       /\ fetched[k].outcome.ok
       /\ fetched[i].key \notin DOMAIN files
       /\ fetched[j].key \notin DOMAIN files
       /\ fetched[k].key \in DOMAIN files

----------------------------------------------------------------------------
(* Claims about the derived identifier *)

Upper ==
  <<"A", "B", "C", "D", "E", "F", "G", "H", "I", "J", "K", "L", "M", "N", "O",
    "P", "Q", "R", "S", "T", "U", "V", "W", "X", "Y", "Z">>

Lower ==
  <<"a", "b", "c", "d", "e", "f", "g", "h", "i", "j", "k", "l", "m", "n", "o",
    "p", "q", "r", "s", "t", "u", "v", "w", "x", "y", "z">>

LowerCased(str) ==
  [i \in DOMAIN str |->
     IF \E n \in DOMAIN Upper : Upper[n] = str[i]
     THEN Lower[CHOOSE n \in DOMAIN Upper : Upper[n] = str[i]]
     ELSE str[i]]

Underscored(str) ==
  [i \in DOMAIN str |->
     IF str[i] \in Letters \cup Digits THEN str[i] ELSE "_"]

Derived ==
  /\ mode = "operationId"
  /\ pc = "returned"
  /\ ~TruthyString(The(idArgs).operation.operationId)

\* C9 (as claimed): without an explicit identifier, the identifier is the
\* lower-cased path, every non-alphanumeric character replaced by "_", then
\* "_" and the method name; the path is read with or without its leading
\* slash.
C9_LowerCasedPath ==
  Derived =>
    LET a == The(idArgs)
        id == The(idResult).process
        suffix == <<"_">> \o MethodChars[a.method]
    IN \/ id = Underscored(LowerCased(a.path)) \o suffix
       \/ id = Underscored(LowerCased(Slice1(a.path))) \o suffix

\* C9 (amended): without an explicit identifier, the identifier is the path
\* after its first character, case kept, every character that is not an ASCII
\* letter or digit replaced by "_", then "_" and the method name; both places
\* that derive it agree, and it holds only letters, digits and underscores.
C9_PathAsWritten ==
  Derived =>
    LET a == The(idArgs)
        id == The(idResult).process
        n == Len(a.path) - 1
    IN /\ Len(id) = n + 1 + Len(MethodChars[a.method])
       /\ \A i \in 1..n :
            id[i] = IF a.path[i + 1] \in Letters \cup Digits
                    THEN a.path[i + 1] ELSE "_"
       /\ id[n + 1] = "_"
       /\ \A i \in DOMAIN MethodChars[a.method] :
            id[n + 1 + i] = MethodChars[a.method][i]
       /\ The(idResult).llms = id
       /\ \A i \in DOMAIN id : id[i] \in Letters \cup Digits \cup {"_"}

\* an identifier derived from a path with an upper-case letter and a
\* character that is neither letter nor digit
C9_Witness ==
  /\ Derived
  /\ The(idArgs).path = <<"/", "P", "{">>
  /\ The(idArgs).method = "delete"
  /\ The(idResult).process = <<"P", "_", "_", "d", "e", "l", "e", "t", "e">>

----------------------------------------------------------------------------
(* runCLI: a failure inside processOpenAPI *)

\* the names in the working directory that are not the document read
OutputFiles == DOMAIN disk \ Range(openapiFiles)

\* C11: once a statement inside the try of processOpenAPI has thrown, the
\* process has ended with exit code 1: processOpenAPI has not returned (the
\* behaviour is at the exit, neither at `return files` nor past runCLI's
\* writing loop) and the working directory holds no output file.
C11_FailureIsFatal ==
  mode = "runCLI" /\ error # Undefined =>
    /\ pc = "exit"
    /\ exitCode = Some(1)
    /\ OutputFiles = {}

\* C11: a statement threw while the second tag was handled, after the file
\* map had received llms.txt, an operation partition and a tag partition.
C11_Witness ==
  /\ mode = "runCLI"
  /\ error = Some(<<"tags", 2>>)
  /\ pc = "exit"
  /\ LlmsKey \in DOMAIN files
  /\ TagKey(PetTag) \in DOMAIN files
  /\ \E k \in DOMAIN files : k.dir = "operations/" /\ k.ext = ".yaml"

----------------------------------------------------------------------------
(* findRefs: the names returned against the pointers of the fragment *)

\* the pointers of a fragment, read off its structure
PointersInFragment(json) ==
  Range(json.info.refs) \cup PointersInPaths(json.paths)

\* the names the fragment points to under the category of this prefix
PointedAt(json, refPrefix) ==
  {ptr[2] : ptr \in {q \in PointersInFragment(json) :
                       componentPrefix(q[1]) = refPrefix}}

FindReturned == mode = "findRefs" /\ pc = "returned"

\* C12: findRefs returns exactly the candidate names N for which the
\* fragment holds a pointer to prefix+N, and nothing when the candidate
\* mapping is absent.
C12_ScannerExact ==
  FindReturned =>
    LET a == The(findArgs)
    IN The(findResult) =
         IF a.refs = Undefined THEN {}
         ELSE DOMAIN The(a.refs) \cap PointedAt(a.json, a.refPrefix)

----------------------------------------------------------------------------
(* createSubset: the paths of the subset against the `paths` argument *)

\* the <<path, key>> places of a paths object that hold an operation
OperationsIn(ps) ==
  UNION {{<<ps[i].path, k>> : k \in {key \in DOMAIN ps[i].item :
                                       TruthyOperation(ps[i].item[key])}} :
           i \in DOMAIN ps}

\* what a paths object holds at a place
OperationAt(ps, place) ==
  LET i == CHOOSE j \in DOMAIN ps : ps[j].path = place[1]
  IN ps[i].item[place[2]]

\* operationFilter is absent or accepts (operation, method, path)
Accepts(filter, place) == filter = Null \/ place \in The(filter)

\* C13: the subset's paths hold an entry at (path, method) exactly when the
\* method is one of the eight recognized verbs, the `paths` argument holds an
\* operation there and operationFilter, when given, accepts it; the entry is
\* the operation of the argument; nothing is copied from under another key,
\* and no path of the subset is left without a method.
C13_PathFiltering ==
  Returned =>
    LET kept == The(subset).paths
    IN /\ PairsIn(kept) =
            {place \in OperationsIn(paths) :
               /\ place[2] \in Range(methods)
               /\ Accepts(operationFilter, place)}
       /\ \A place \in PairsIn(kept) :
            OperationAt(kept, place) = OperationAt(paths, place)
       /\ \A i \in DOMAIN kept : DOMAIN kept[i].item # {}

\* C13: the argument holds an operation under an unrecognized key of one path
\* and under get of another; a filter is given and accepts the second; the
\* first path is gone from the subset and the second is kept.
C13_Witness ==
  /\ Returned
  /\ operationFilter # Null
  /\ <<PathP, "x-verb">> \in OperationsIn(paths)
  /\ <<PathQ, "get">> \in OperationsIn(paths)
  /\ PairsIn(The(subset).paths) = {<<PathQ, "get">>}
  /\ Len(The(subset).paths) = 1

====
